---- MODULE Spec2Model ----
(***************************************************************************)
(* bitperm: hierarchical bitmask permissions.                              *)
(*                                                                         *)
(* A Scope owns a map of Permissions (each a single bit of a u64), a map   *)
(* of child Scopes and the shift of the next permission.  A ScopeTuple is  *)
(* the collapsed form of a scope tree.                                     *)
(*                                                                         *)
(* A u64 is modelled by the set of its bit positions that are 1 (a subset  *)
(* of 0..63): `|` is union, `&` is intersection, a power of two is a       *)
(* singleton.  The encoding is exact for every u64, 2^63 included.          *)
(***************************************************************************)
EXTENDS Integers, Sequences, FiniteSets, TLC

VARIABLES
    build,      \* "debug" (overflow checks on) or "release" (wrapping shifts)
    root,       \* the scope tree the caller owns
    added,      \* history: per scope path, the names add_permission accepted, in order
    result,     \* [op, res]: the last call and what it returned
    tuple,      \* the ScopeTuple last produced by as_tuple (NoTuple: none held)
    expanded,   \* the Scope last produced by Scope::from (NoScope: none, Panic)
    shift,      \* the argument of a direct Permission::new call
    created     \* what that Permission::new call returned

vars == <<build, root, added, result, tuple, expanded, shift, created>>

----------------------------------------------------------------------------
(* Bounds of the model *)

\* deepest nesting of child scopes below the root
MaxDepth == 1
\* most child scopes in the whole tree
MaxScopes == 1
\* names offered to the scope that is filled up to its limit
MaxFill == 55

\* names given to permissions, and names given to child scopes: a scope's
\* permissions and child scopes share one namespace, and so do these sets
Names == {"READ", "WRITE"}
ScopeNames == {"READ", "ADMIN"}
RootName == "USER"

Panic == "Panic"
None == [tag |-> "None"]
Some(x) == [tag |-> "Some", val |-> x]
NoTuple == [tag |-> "None"]
NoScope == [tag |-> "None"]
NoCall == [op |-> "none", res |-> "none"]

----------------------------------------------------------------------------
(* u64 arithmetic on bit sets *)

Bits64 == 0..63

\* 9007199254740991 = 2^53 - 1: bits 0..52 all set
MAX_VALUE == 0..52

\* v <= MAX_VALUE for u64 values: MAX_VALUE is all ones below bit 53
LeqMax(v) == \A b \in v : b \in MAX_VALUE

\* v << k on a u64 with k inside the width: bits shifted out are lost
ShlBits(v, k) == {b + k : b \in v} \cap Bits64

\* v << k as the build evaluates it: a shift of 64 or more panics with
\* overflow checks and is taken modulo 64 without them
Shl(v, k) ==
    IF k < 64 THEN [tag |-> "Ok", val |-> ShlBits(v, k)]
    ELSE IF build = "debug" THEN [tag |-> Panic]
    ELSE [tag |-> "Ok", val |-> ShlBits(v, k % 64)]

One == {0}
Two == {1}

is_power_of_two(v) == Cardinality(v) = 1

----------------------------------------------------------------------------
(* Permission *)

\* validate_shift that accepts every shift
validate_shift_any(name, s) == [tag |-> "Ok", shift |-> s]

\* validate_shift that compares the shift with the number of safe bits
validate_shift_by_count(name, s) ==
    IF s <= Cardinality(MAX_VALUE) THEN [tag |-> "Ok", shift |-> s]
    ELSE [tag |-> "MaxValue", name |-> name, shift |-> s]

validate_shift(name, s) ==
    LET v == Shl(One, s) IN
    IF v.tag = Panic THEN [tag |-> Panic]
    ELSE IF LeqMax(v.val) THEN [tag |-> "Ok", shift |-> s]
    ELSE [tag |-> "MaxValue", name |-> name, shift |-> s]

\* validate_value as its comment words it: 0, 1, or a power of two
validate_value_or_zero(name, v) ==
    IF v = {} \/ v = One \/ is_power_of_two(v) THEN [tag |-> "Ok"]
    ELSE [tag |-> "InvalidValue", name |-> name]

validate_value(name, v) ==
    IF v = One \/ is_power_of_two(v) THEN [tag |-> "Ok"]
    ELSE [tag |-> "InvalidValue", name |-> name]

Permission_new(name, s) ==
    LET vs == validate_shift(name, s) IN
    IF vs.tag # "Ok" THEN vs
    ELSE LET v == Shl(One, vs.shift) IN
         IF v.tag = Panic THEN [tag |-> Panic]
         ELSE LET vv == validate_value(name, v.val) IN
              IF vv.tag # "Ok" THEN vv
              ELSE [tag |-> "Ok",
                    perm |-> [name |-> name, value |-> v.val,
                              has_permission |-> FALSE]]

\* grant without the test of the flag
grant_unguarded(p) == [res |-> "Ok", perm |-> [p EXCEPT !.has_permission = TRUE]]

\* grant that stores a rebuilt permission instead of setting the flag
grant_rebuilt(p) ==
    IF p.has_permission THEN [res |-> "GrantError", perm |-> p]
    ELSE [res |-> "Ok",
          perm |-> [name |-> p.name, value |-> One, has_permission |-> TRUE]]

grant(p) ==
    IF p.has_permission THEN [res |-> "GrantError", perm |-> p]
    ELSE [res |-> "Ok", perm |-> [p EXCEPT !.has_permission = TRUE]]

revoke(p) ==
    IF ~p.has_permission THEN [res |-> "RevocationError", perm |-> p]
    ELSE [res |-> "Ok", perm |-> [p EXCEPT !.has_permission = FALSE]]

has(p) == p.has_permission

----------------------------------------------------------------------------
(* HashMap *)

EmptyMap == [k \in {} |-> {}]

\* insert replaces the value of a key already present
insert(m, k, v) == (k :> v) @@ m

is_empty(m) == DOMAIN m = {}

contains_key(m, k) == k \in DOMAIN m

\* the orders in which a map's keys can be iterated
RECURSIVE Orders(_)
Orders(S) ==
    IF S = {} THEN {<< >>}
    ELSE UNION {{<<x>> \o o : o \in Orders(S \ {x})} : x \in S}

----------------------------------------------------------------------------
(* Scope *)

Scope_new(name) ==
    [name |-> name,
     permissions |-> EmptyMap,
     next_permission_shift |-> 0,
     scopes |-> EmptyMap]

\* validate_name that looks at the permissions only
validate_name_permissions_only(s, name) ==
    IF ~is_empty(s.permissions) /\ contains_key(s.permissions, name)
    THEN "PermissionExists" ELSE "Ok"

\* validate_name with the two single collisions exchanged
validate_name_swapped(s, name) ==
    LET perm_unique == ~is_empty(s.permissions) /\ contains_key(s.permissions, name)
        scope_unique == ~is_empty(s.scopes) /\ contains_key(s.scopes, name)
    IN  IF ~perm_unique /\ ~scope_unique THEN "Ok"
        ELSE IF perm_unique /\ ~scope_unique THEN "ScopeExists"
        ELSE IF ~perm_unique /\ scope_unique THEN "PermissionExists"
        ELSE "BothExist"

validate_name(s, name) ==
    LET perm_unique == ~is_empty(s.permissions) /\ contains_key(s.permissions, name)
        scope_unique == ~is_empty(s.scopes) /\ contains_key(s.scopes, name)
    IN  IF ~perm_unique /\ ~scope_unique THEN "Ok"
        ELSE IF perm_unique /\ ~scope_unique THEN "PermissionExists"
        ELSE IF ~perm_unique /\ scope_unique THEN "ScopeExists"
        ELSE "BothExist"

\* add_permission that counts the shift up before the permission is created
add_permission_commit_first(s, name) ==
    LET v == validate_name(s, name) IN
    IF v # "Ok" THEN [res |-> v, scope |-> s]
    ELSE LET new_perm == Permission_new(name, s.next_permission_shift)
             counted == [s EXCEPT
                 !.next_permission_shift = (s.next_permission_shift + 1) % 256]
         IN  IF new_perm.tag # "Ok" THEN [res |-> new_perm.tag, scope |-> counted]
             ELSE [res |-> "Ok",
                   scope |-> [counted EXCEPT
                       !.permissions = insert(s.permissions, name, new_perm.perm)]]

\* add_permission that leaves next_permission_shift as it was
add_permission_same_shift(s, name) ==
    LET v == validate_name(s, name) IN
    IF v # "Ok" THEN [res |-> v, scope |-> s]
    ELSE LET new_perm == Permission_new(name, s.next_permission_shift) IN
         IF new_perm.tag # "Ok" THEN [res |-> new_perm.tag, scope |-> s]
         ELSE [res |-> "Ok",
               scope |-> [s EXCEPT
                   !.permissions = insert(s.permissions, name, new_perm.perm)]]

\* [res, scope]: what the call returns and the scope after it
add_permission(s, name) ==
    LET v == validate_name(s, name) IN
    IF v # "Ok" THEN [res |-> v, scope |-> s]
    ELSE LET new_perm == Permission_new(name, s.next_permission_shift) IN
         IF new_perm.tag # "Ok" THEN [res |-> new_perm.tag, scope |-> s]
         ELSE [res |-> "Ok",
               scope |-> [s EXCEPT
                   !.permissions = insert(s.permissions, name, new_perm.perm),
                   !.next_permission_shift = (s.next_permission_shift + 1) % 256]]

\* add_scope without the validation of the name
add_scope_unchecked(s, name) ==
    [res |-> "Ok",
     scope |-> [s EXCEPT !.scopes = insert(s.scopes, name, Scope_new(name))]]

\* add_scope that stores the child in a new map of its own
add_scope_alone(s, name) ==
    LET v == validate_name(s, name) IN
    IF v # "Ok" THEN [res |-> v, scope |-> s]
    ELSE [res |-> "Ok",
          scope |-> [s EXCEPT !.scopes = insert(EmptyMap, name, Scope_new(name))]]

\* add_scope whose child goes on with the shift of its parent
add_scope_inherit(s, name) ==
    LET v == validate_name(s, name) IN
    IF v # "Ok" THEN [res |-> v, scope |-> s]
    ELSE [res |-> "Ok",
          scope |-> [s EXCEPT !.scopes = insert(s.scopes, name,
              [Scope_new(name) EXCEPT
                  !.next_permission_shift = s.next_permission_shift])]]

add_scope(s, name) ==
    LET v == validate_name(s, name) IN
    IF v # "Ok" THEN [res |-> v, scope |-> s]
    ELSE [res |-> "Ok",
          scope |-> [s EXCEPT !.scopes = insert(s.scopes, name, Scope_new(name))]]

\* permission that hands out an entry of the map whatever the name asked for
permission_any(s, name) ==
    IF is_empty(s.permissions) THEN None
    ELSE Some(s.permissions[CHOOSE k \in DOMAIN s.permissions : TRUE])

permission(s, name) ==
    IF is_empty(s.permissions) THEN None
    ELSE IF contains_key(s.permissions, name) THEN Some(s.permissions[name])
    ELSE None

scope(s, name) ==
    IF is_empty(s.scopes) THEN None
    ELSE IF contains_key(s.scopes, name) THEN Some(s.scopes[name])
    ELSE None

\* the loop of as_u64: the permissions still to visit, and the value so far
RECURSIVE as_u64_loop(_, _, _)
as_u64_loop(perms, todo, value) ==
    IF todo = {} THEN value
    ELSE LET k == CHOOSE x \in todo : TRUE
             p == perms[k]
         IN  as_u64_loop(perms, todo \ {k},
                         IF has(p) THEN value \cup p.value ELSE value)

\* as_u64 without the has() test: every permission is counted
as_u64_all(s) == UNION {s.permissions[k].value : k \in DOMAIN s.permissions}

as_u64(s) == as_u64_loop(s.permissions, DOMAIN s.permissions, {})

Reverse(q) == [i \in 1..Len(q) |-> q[Len(q) + 1 - i]]

\* as_tuple for one iteration order of the permission keys and the tuples of
\* the child scopes in the order the scopes are iterated: the names are
\* inserted at 0, 1, 2, ..., every child tuple at index 0
\* as_tuple whose vector of child tuples keeps only the tuple inserted last
as_tuple_in_last(s, perm_order, child_tuples) ==
    <<s.name, as_u64(s), perm_order,
      IF child_tuples = << >> THEN << >>
      ELSE <<child_tuples[Len(child_tuples)]>> >>

as_tuple_in(s, perm_order, child_tuples) ==
    <<s.name, as_u64(s), perm_order, Reverse(child_tuples)>>

\* every tuple as_tuple can return for s, over the iteration orders of the maps
RECURSIVE as_tuple_set(_)
\* the child tuples in iteration order: each child collapsed by as_tuple
child_tuples_set(s) ==
    LET kids == DOMAIN s.scopes
        of == [c \in kids |-> as_tuple_set(s.scopes[c])]
        picks == {f \in [kids -> UNION {of[c] : c \in kids}] :
                     \A c \in kids : f[c] \in of[c]}
    IN  {[i \in 1..Len(co) |-> f[co[i]]] : co \in Orders(kids), f \in picks}

as_tuple_set(s) ==
    {as_tuple_in(s, po, ct) :
        po \in Orders(DOMAIN s.permissions), ct \in child_tuples_set(s)}

----------------------------------------------------------------------------
(* impl From<ScopeTuple> for Scope *)

\* one pass of the loop that rebuilds the permissions, for index i (from 0):
\* the map with the permission of permission_names[i] inserted, or the break
expand_permission(permission_names, permission_number, i, permissions) ==
    LET name == permission_names[i + 1]
        new == Permission_new(name, (i + 1) % 256)
        mask == Shl(Two, i)
    IN  IF new.tag = Panic THEN [tag |-> Panic]
        ELSE IF new.tag # "Ok" THEN [tag |-> "Err"]
        ELSE IF mask.tag = Panic THEN [tag |-> Panic]
        ELSE [tag |-> "Ok",
              val |-> insert(permissions, name,
                             IF permission_number \cap mask.val = mask.val
                             THEN grant(new.perm).perm
                             ELSE new.perm)]

\* the loop: r is the map built so far, or the break that ended the loop
RECURSIVE r_expand_permissions(_, _, _, _)
r_expand_permissions(permission_names, permission_number, i, r) ==
    IF r.tag # "Ok" \/ i >= Len(permission_names) THEN r
    ELSE r_expand_permissions(permission_names, permission_number, i + 1,
             expand_permission(permission_names, permission_number, i, r.val))

\* [tag |-> "Some", val |-> scope], or [tag |-> Panic]
RECURSIVE From(_)
\* the loop over the child tuples: each is expanded and keyed by its name
RECURSIVE r_expand_scopes(_, _, _)
r_expand_scopes(child_scopes, i, r) ==
    IF r.tag # "Ok" \/ i >= Len(child_scopes) THEN r
    ELSE LET child == From(child_scopes[i + 1])
         IN  r_expand_scopes(child_scopes, i + 1,
                 IF child.tag = Panic THEN [tag |-> Panic]
                 ELSE [tag |-> "Ok",
                       val |-> insert(r.val, child_scopes[i + 1][1], child.val)])

From(t) ==
    LET ps == r_expand_permissions(t[3], t[2], 0, [tag |-> "Ok", val |-> EmptyMap]) IN
    IF ps.tag # "Ok" THEN [tag |-> Panic]
    ELSE LET cs == r_expand_scopes(t[4], 0, [tag |-> "Ok", val |-> EmptyMap]) IN
         IF cs.tag # "Ok" THEN [tag |-> Panic]
         ELSE Some([Scope_new(t[1]) EXCEPT
                       !.permissions = ps.val,
                       !.next_permission_shift = Len(t[3]) % 256,
                       !.scopes = cs.val])

----------------------------------------------------------------------------
(* The scope tree: a scope is reached from the root by the names of the     *)
(* child scopes on the way, as scope(name) calls reach it.                  *)

\* the path of the root
Top == << >>

\* the names of the permissions of s that are granted
Granted(s) == {k \in DOMAIN s.permissions : s.permissions[k].has_permission}

RECURSIVE Paths(_)
Paths(s) ==
    {<< >>} \cup UNION {{<<c>> \o p : p \in Paths(s.scopes[c])} : c \in DOMAIN s.scopes}

RECURSIVE ScopeAt(_, _)
ScopeAt(s, path) ==
    IF path = << >> THEN s ELSE ScopeAt(s.scopes[Head(path)], Tail(path))

RECURSIVE ReplaceAt(_, _, _)
ReplaceAt(s, path, new) ==
    IF path = << >> THEN new
    ELSE [s EXCEPT !.scopes[Head(path)] = ReplaceAt(@, Tail(path), new)]

RECURSIVE CountScopes(_)
RECURSIVE SumScopes(_, _)
SumScopes(s, todo) ==
    IF todo = {} THEN 0
    ELSE LET c == CHOOSE x \in todo : TRUE
         IN  1 + CountScopes(s.scopes[c]) + SumScopes(s, todo \ {c})

CountScopes(s) == SumScopes(s, DOMAIN s.scopes)

----------------------------------------------------------------------------
(* Calls *)

Init ==
    /\ build \in {"debug", "release"}
    /\ root = Scope_new(RootName)
    /\ added = [p \in {<< >>} |-> << >>]
    /\ result = NoCall
    /\ tuple = NoTuple
    /\ expanded = NoScope
    /\ shift = 0
    /\ created = None

\* scope-at-path.add_permission(n)
AddPermission(path, n) ==
    LET s == ScopeAt(root, path)
        r == add_permission(s, n)
    IN  /\ root' = ReplaceAt(root, path, r.scope)
        /\ added' = IF r.res = "Ok" THEN [added EXCEPT ![path] = Append(@, n)]
                     ELSE added
        /\ result' = [op |-> "add_permission", res |-> r.res]
        /\ tuple' = NoTuple
        /\ expanded' = NoScope
        /\ UNCHANGED <<build, shift, created>>

\* scope-at-path.add_scope(n); a new scope is created only within the bounds
AddScope(path, n) ==
    LET s == ScopeAt(root, path)
        r == add_scope(s, n)
    IN  /\ r.res = "Ok" => Len(path) < MaxDepth /\ CountScopes(root) < MaxScopes
        /\ root' = ReplaceAt(root, path, r.scope)
        /\ added' = IF r.res = "Ok"
                     THEN [p \in DOMAIN added \cup {Append(path, n)} |->
                              IF p \in DOMAIN added THEN added[p] ELSE << >>]
                     ELSE added
        /\ result' = [op |-> "add_scope", res |-> r.res]
        /\ tuple' = NoTuple
        /\ expanded' = NoScope
        /\ UNCHANGED <<build, shift, created>>

\* scope-at-path.permission(n).and_then(|p| p.grant())
Grant(path, n) ==
    LET s == ScopeAt(root, path)
        o == permission(s, n)
    IN  /\ IF o = None
           THEN /\ root' = root
                /\ result' = [op |-> "grant", res |-> "None"]
           ELSE LET g == grant(o.val) IN
                /\ root' = ReplaceAt(root, path, [s EXCEPT !.permissions[n] = g.perm])
                /\ result' = [op |-> "grant", res |-> g.res]
        /\ tuple' = NoTuple
        /\ expanded' = NoScope
        /\ UNCHANGED <<build, added, shift, created>>

\* scope-at-path.permission(n).and_then(|p| p.revoke())
Revoke(path, n) ==
    LET s == ScopeAt(root, path)
        o == permission(s, n)
    IN  /\ IF o = None
           THEN /\ root' = root
                /\ result' = [op |-> "revoke", res |-> "None"]
           ELSE LET g == revoke(o.val) IN
                /\ root' = ReplaceAt(root, path, [s EXCEPT !.permissions[n] = g.perm])
                /\ result' = [op |-> "revoke", res |-> g.res]
        /\ tuple' = NoTuple
        /\ expanded' = NoScope
        /\ UNCHANGED <<build, added, shift, created>>

\* scope-at-path.permission(n), the caller keeping only whether it is Some
LookupPermission(path, n) ==
    /\ result' = [op |-> "permission", res |-> permission(ScopeAt(root, path), n).tag]
    /\ UNCHANGED <<build, root, added, tuple, expanded, shift, created>>

\* scope-at-path.scope(n), the caller keeping only whether it is Some
LookupScope(path, n) ==
    /\ result' = [op |-> "scope", res |-> scope(ScopeAt(root, path), n).tag]
    /\ UNCHANGED <<build, root, added, tuple, expanded, shift, created>>

\* root.as_tuple() returning t
AsTuple(t) ==
    /\ tuple' = Some(t)
    /\ expanded' = NoScope
    /\ result' = [op |-> "as_tuple", res |-> "Ok"]
    /\ UNCHANGED <<build, root, added, shift, created>>

\* Scope::from(tuple)
FromTuple ==
    /\ tuple # NoTuple
    /\ expanded = NoScope
    /\ expanded' = From(tuple.val)
    /\ result' = [op |-> "from", res |-> IF expanded'.tag = Panic THEN Panic ELSE "Ok"]
    /\ UNCHANGED <<build, root, added, tuple, shift, created>>

\* names a caller passes to add_permission on s: the permission names, and
\* the names of the child scopes s has
AddNames(s) == Names \cup DOMAIN s.scopes

Next ==
    \/ \E path \in Paths(root) :
          \E n \in AddNames(ScopeAt(root, path)) : AddPermission(path, n)
    \/ \E path \in Paths(root), n \in ScopeNames : AddScope(path, n)
    \/ \E path \in Paths(root), n \in Names : Grant(path, n)
    \/ \E path \in Paths(root), n \in Names : Revoke(path, n)
    \/ \E t \in as_tuple_set(root) : AsTuple(t)
    \/ FromTuple

Spec == Init /\ [][Next]_vars

\* the same caller, looking names up instead of expanding tuples
LookupNext ==
    \/ \E path \in Paths(root) :
          \E n \in AddNames(ScopeAt(root, path)) : AddPermission(path, n)
    \/ \E path \in Paths(root), n \in ScopeNames : AddScope(path, n)
    \/ \E path \in Paths(root), n \in Names : Grant(path, n)
    \/ \E path \in Paths(root), n \in Names : Revoke(path, n)
    \/ \E path \in Paths(root), n \in Names : LookupPermission(path, n)
    \/ \E path \in Paths(root), n \in ScopeNames : LookupScope(path, n)
    \/ \E t \in as_tuple_set(root) : AsTuple(t)

SpecLookup == Init /\ [][LookupNext]_vars

----------------------------------------------------------------------------
(* One scope filled to its limit.  The names are interchangeable, so the    *)
(* caller adds the fresh names in one order, "P0", "P1", ..., and grants    *)
(* and revokes in that order; it also retries names already taken.          *)

FillName(i) == "P" \o ToString(i)

\* the name given to the child scope
FillScopeName == "ADMIN"

\* the next fresh name (while names are left), the first name, and the name
\* of the child scope once it exists
FillAddNames ==
    {FillName(i) : i \in {Len(added[Top])} \cap 0..(MaxFill - 1)}
        \cup {FillName(0)} \cup DOMAIN root.scopes

\* the next permission not yet granted, and the first one
FillGrantNames == {FillName(Cardinality(Granted(root))), FillName(0)}

\* the permission granted last, and the one after it
FillRevokeNames ==
    {FillName(i) : i \in {Cardinality(Granted(root)) - 1, Cardinality(Granted(root))}
                            \cap 0..MaxFill}

\* the maps iterated in insertion order and in the reverse of it
FillTuples ==
    {as_tuple_in(root, po, ct) :
        po \in {added[Top], Reverse(added[Top])}, ct \in child_tuples_set(root)}

FillNext ==
    \/ \E n \in FillAddNames : AddPermission(Top, n)
    \/ \E n \in {FillScopeName, FillName(0)} : AddScope(Top, n)
    \/ \E n \in FillGrantNames : Grant(Top, n)
    \/ \E n \in FillRevokeNames : Revoke(Top, n)
    \/ \E t \in FillTuples : AsTuple(t)
    \/ FromTuple

SpecFill == Init /\ [][FillNext]_vars

----------------------------------------------------------------------------
(* Permission::new called directly, for every shift a u8 holds *)

U8 == 0..255

NewInit ==
    /\ build \in {"debug", "release"}
    /\ root = Scope_new(RootName)
    /\ added = [p \in {<< >>} |-> << >>]
    /\ result = NoCall
    /\ tuple = NoTuple
    /\ expanded = NoScope
    /\ shift \in U8
    /\ created = None

\* Permission::new(n, shift)
NewPermission(n) ==
    /\ created = None
    /\ created' = Permission_new(n, shift)
    /\ UNCHANGED <<build, root, added, result, tuple, expanded, shift>>

NewNext == \E n \in Names : NewPermission(n)

SpecNew == NewInit /\ [][NewNext]_vars

----------------------------------------------------------------------------
(* validate_value called directly, next to Permission::new *)

MaxValueBits == 3

\* bit positions the values are made of: low ones, those of the test value
\* (1 << 26) + 17, and those around the ceiling and the width
SampleBits == {0, 1, 4, 26, 52, 53, 63}

\* the u64 values passed to validate_value
ValueInputs == {v \in SUBSET SampleBits : Cardinality(v) <= MaxValueBits}

ValueInit ==
    /\ build \in {"debug", "release"}
    /\ root = Scope_new(RootName)
    /\ added = [p \in {<< >>} |-> << >>]
    /\ result = NoCall
    /\ tuple = NoTuple
    /\ expanded = NoScope
    /\ \/ shift \in U8 /\ created = None
       \/ shift = 0 /\ created \in {[tag |-> "Value", value |-> v] : v \in ValueInputs}

\* validate_value(&n, &value)
ValidateValue(n) ==
    /\ created.tag = "Value"
    /\ created' = [tag |-> "Checked", value |-> created.value,
                   res |-> validate_value(n, created.value).tag]
    /\ UNCHANGED <<build, root, added, result, tuple, expanded, shift>>

ValueNext ==
    \/ \E n \in Names : NewPermission(n)
    \/ \E n \in Names : ValidateValue(n)

SpecValue == ValueInit /\ [][ValueNext]_vars

----------------------------------------------------------------------------
(* Scope::from called on tuples a caller wrote, as a deserialised tuple is,  *)
(* followed by one add_permission on the scope it returned.                  *)

MaxTupleNames == 2

MaxTupleBit == 2

\* the names found in a tuple and passed to add_permission afterwards
TupleNames == {"READ", "WRITE", "ADMIN"}

\* the lists of permission names of a tuple, repeated names included
NameLists == UNION {[1..k -> TupleNames] : k \in 0..MaxTupleNames}

\* the aggregates of a tuple
Aggregates == SUBSET (0..MaxTupleBit)

\* the child tuples: one name, none or one permission, no children
ChildTupleInputs ==
    {<<"ADMIN", a, ns, << >> >> : a \in SUBSET (0..1), ns \in {<< >>, <<"READ">>}}

TupleInputs ==
    {<<RootName, a, ns, cs>> :
        a \in Aggregates, ns \in NameLists,
        cs \in {<< >>} \cup {<<c>> : c \in ChildTupleInputs}}

TupleInit ==
    /\ build \in {"debug", "release"}
    /\ root = Scope_new(RootName)
    /\ added = [p \in {<< >>} |-> << >>]
    /\ result = NoCall
    /\ tuple \in {Some(t) : t \in TupleInputs}
    /\ expanded = NoScope
    /\ shift = 0
    /\ created = None

\* add_permission(n) on the scope Scope::from has just returned
ExpandedAddPermission(n) ==
    /\ expanded.tag = "Some"
    /\ result.op = "from"
    /\ LET r == add_permission(expanded.val, n)
       IN  /\ expanded' = Some(r.scope)
           /\ result' = [op |-> "add_permission", res |-> r.res]
    /\ UNCHANGED <<build, root, added, tuple, shift, created>>

TupleNext ==
    \/ FromTuple
    \/ \E n \in TupleNames : ExpandedAddPermission(n)

SpecTuple == TupleInit /\ [][TupleNext]_vars

----------------------------------------------------------------------------
(* as_tuple on trees of several child scopes, side by side or nested *)

MaxCollapseScopes == 2

MaxCollapseDepth == 2

\* scope-at-path.add_scope(n), within the bounds of these trees
AddScopeIn(path, n) ==
    LET s == ScopeAt(root, path)
        r == add_scope(s, n)
    IN  /\ r.res = "Ok" =>
              Len(path) < MaxCollapseDepth /\ CountScopes(root) < MaxCollapseScopes
        /\ root' = ReplaceAt(root, path, r.scope)
        /\ added' = IF r.res = "Ok"
                     THEN [p \in DOMAIN added \cup {Append(path, n)} |->
                              IF p \in DOMAIN added THEN added[p] ELSE << >>]
                     ELSE added
        /\ result' = [op |-> "add_scope", res |-> r.res]
        /\ tuple' = NoTuple
        /\ expanded' = NoScope
        /\ UNCHANGED <<build, shift, created>>

\* names a caller adds as permissions at path: all at the root, one below it
CollapseAddNames(path) == IF path = Top THEN Names ELSE {"WRITE"}

CollapseNext ==
    \/ \E path \in Paths(root) :
          \E n \in CollapseAddNames(path) : AddPermission(path, n)
    \/ \E path \in Paths(root), n \in ScopeNames : AddScopeIn(path, n)
    \/ \E path \in Paths(root), n \in Names : Grant(path, n)
    \/ \E t \in as_tuple_set(root) : AsTuple(t)

SpecCollapse == Init /\ [][CollapseNext]_vars

----------------------------------------------------------------------------
(* Names colliding: a scope built by add_permission and add_scope, next to   *)
(* a scope expanded from a tuple a caller wrote and then added to.           *)

\* add_scope(n) on the scope Scope::from has just returned
ExpandedAddScope(n) ==
    /\ expanded.tag = "Some"
    /\ result.op = "from"
    /\ LET r == add_scope(expanded.val, n)
       IN  /\ expanded' = Some(r.scope)
           /\ result' = [op |-> "add_scope", res |-> r.res]
    /\ UNCHANGED <<build, root, added, tuple, shift, created>>

CollisionNext ==
    \/ \E path \in Paths(root) :
          \E n \in AddNames(ScopeAt(root, path)) : AddPermission(path, n)
    \/ \E path \in Paths(root), n \in ScopeNames : AddScope(path, n)
    \/ FromTuple
    \/ \E n \in TupleNames : ExpandedAddPermission(n)
    \/ \E n \in TupleNames : ExpandedAddScope(n)

SpecCollision == TupleInit /\ [][CollisionNext]_vars

----------------------------------------------------------------------------
(* Properties *)

\* the value of a scope as the data model states it: the bits of exactly the
\* direct permissions that are granted
GrantedBits(s) == UNION {s.permissions[k].value : k \in Granted(s)}

\* s and e agree on as_u64, and so do their descendants paired by name
RECURSIVE SameAggregate(_, _)
SameAggregate(s, e) ==
    /\ as_u64(e) = as_u64(s)
    /\ \A c \in DOMAIN s.scopes :
          c \in DOMAIN e.scopes /\ SameAggregate(s.scopes[c], e.scopes[c])

\* s and e agree on name, permission names and child names, recursively
RECURSIVE SameStructure(_, _)
SameStructure(s, e) ==
    /\ e.name = s.name
    /\ DOMAIN e.permissions = DOMAIN s.permissions
    /\ DOMAIN e.scopes = DOMAIN s.scopes
    /\ \A c \in DOMAIN s.scopes : SameStructure(s.scopes[c], e.scopes[c])

\* the most permissions the claims give a scope: 53, one per bit of MAX_VALUE
PermissionLimit == Cardinality(MAX_VALUE)

\* C1: Scope::from(S.as_tuple()) has the as_u64() of S, and so has every
\* descendant paired by name (checked when the expansion has been made of
\* the tuple of the current tree).
C1_RoundTripAggregate ==
    expanded # NoScope =>
        expanded.tag = "Some" /\ SameAggregate(root, expanded.val)

\* C2: Scope::from(S.as_tuple()) has the name, the permission names and the
\* child-scope names of S, recursively: nothing is lost, duplicated or renamed.
C2_RoundTripStructure ==
    expanded # NoScope =>
        expanded.tag = "Some" /\ SameStructure(root, expanded.val)

\* C3: every scope's as_u64() is the OR of the values of exactly its direct
\* permissions that are granted (0 when none is); ungranted permissions and
\* the permissions of child scopes contribute nothing.
C3_AggregateIsGrantedOr ==
    \A path \in Paths(root) :
        as_u64(ScopeAt(root, path)) = GrantedBits(ScopeAt(root, path))

\* C3 witness: a scope with a granted and an ungranted permission whose child
\* scope holds a granted permission.
C3_Witness ==
    /\ Granted(root) # {}
    /\ DOMAIN root.permissions \ Granted(root) # {}
    /\ \E c \in DOMAIN root.scopes : Granted(root.scopes[c]) # {}

\* C4: in a scope built from Scope::new the i-th permission added with success
\* (from 0) has the value 1 << i, so the values of its n permissions are
\* pairwise distinct and are exactly 1 << 0, ..., 1 << (n - 1).
C4_SequentialBits ==
    \A path \in Paths(root) :
        LET s == ScopeAt(root, path)
            log == added[path]
        IN  /\ DOMAIN s.permissions = {log[i] : i \in 1..Len(log)}
            /\ Cardinality(DOMAIN s.permissions) = Len(log)
            /\ \A i \in 1..Len(log) : s.permissions[log[i]].value = {i - 1}
            /\ {s.permissions[k].value : k \in DOMAIN s.permissions}
                   = {{i} : i \in 0..(Len(log) - 1)}

\* C4 witness: the scope holds 53 permissions, some granted, beside a child
\* scope, and the last add_permission call failed.
C4_Witness ==
    /\ Len(added[Top]) = PermissionLimit
    /\ Granted(root) # {}
    /\ DOMAIN root.scopes # {}
    /\ result.op = "add_permission" /\ result.res # "Ok"

\* C5: Permission::new(name, s) succeeds with value 1 << s for 0 <= s <= 52
\* and returns the MaxValue error for every s from 53 through 255.
C5_NewByShift ==
    created # None =>
        IF shift <= 52
        THEN created.tag = "Ok" /\ created.perm.value = {shift}
        ELSE created.tag = "MaxValue"

\* the names the calls of the specifications are made with
CallNames == Names \cup ScopeNames \cup FillAddNames \cup {FillScopeName, FillName(0)}

\* n is neither a permission name nor a child-scope name of s
Fresh(s, n) == n \notin DOMAIN s.permissions /\ n \notin DOMAIN s.scopes

\* C6: add_permission with a fresh name succeeds while fewer than 53 additions
\* have succeeded and fails with the MaxValue PermissionError, changing
\* nothing, once 53 have; a scope never holds more than 53 permissions.
C6_FillLimit ==
    [][\A n \in CallNames :
          (result'.op = "add_permission" /\ Fresh(root, n)
                                           /\ AddPermission(Top, n)) =>
              /\ IF Len(added[Top]) < PermissionLimit
                 THEN /\ result'.res = "Ok"
                      /\ n \in DOMAIN root'.permissions
                      /\ Len(added'[Top]) = Len(added[Top]) + 1
                 ELSE /\ result'.res = "MaxValue"
                      /\ root' = root
              /\ Cardinality(DOMAIN root'.permissions) <= PermissionLimit]_vars

\* C6 witness: the 54th fresh name was refused with MaxValue.
C6_Witness ==
    /\ result = [op |-> "add_permission", res |-> "MaxValue"]
    /\ Len(added[Top]) = PermissionLimit
    /\ Cardinality(DOMAIN root.permissions) = PermissionLimit

\* C7: in every scope of the tree the permission names and the child-scope
\* names are disjoint, and each key is the name stored in what it maps to.
C7_DisjointNames ==
    \A path \in Paths(root) :
        LET s == ScopeAt(root, path) IN
        /\ DOMAIN s.permissions \cap DOMAIN s.scopes = {}
        /\ \A k \in DOMAIN s.permissions : s.permissions[k].name = k
        /\ \A c \in DOMAIN s.scopes : s.scopes[c].name = c

\* C7 witness: a scope holding a permission and a child scope refused a name.
C7_Witness ==
    /\ DOMAIN root.permissions # {}
    /\ DOMAIN root.scopes # {}
    /\ result.res \in {"PermissionExists", "ScopeExists"}

\* what C8 says a call with name n on scope s returns: the collision by kind,
\* and success exactly for a fresh name (whose shift fits, for a permission)
CollisionByKind(s, n, res, fits) ==
    LET in_perms == n \in DOMAIN s.permissions
        in_scopes == n \in DOMAIN s.scopes
    IN  /\ (in_perms /\ ~in_scopes) => res = "PermissionExists"
        /\ (in_scopes /\ ~in_perms) => res = "ScopeExists"
        /\ res = "Ok" <=> (~in_perms /\ ~in_scopes /\ fits)

\* C8: add_permission(n) and add_scope(n) fail with PermissionExists when n
\* names a permission only, with ScopeExists when n names a child scope only,
\* and succeed if and only if n names neither (and the shift does not
\* overflow, for add_permission).
C8_CollisionKinds ==
    [][\A path \in Paths(root) : \A n \in CallNames :
          LET s == ScopeAt(root, path) IN
          /\ (result'.op = "add_permission" /\ AddPermission(path, n)) =>
                 CollisionByKind(s, n, result'.res,
                                 s.next_permission_shift < PermissionLimit)
          /\ (result'.op = "add_scope" /\ AddScope(path, n)) =>
                 CollisionByKind(s, n, result'.res, TRUE)]_vars

\* C8 witness: add_permission was refused the name of a child scope by a
\* scope that holds permissions.
C8_Witness ==
    /\ result = [op |-> "add_permission", res |-> "ScopeExists"]
    /\ DOMAIN root.permissions # {}

\* C9: a new permission is not granted; grant succeeds exactly on a permission
\* that is not granted and leaves it granted, failing with GrantError on a
\* granted one; revoke succeeds exactly on a granted permission and leaves it
\* not granted, failing with RevocationError otherwise; has() is the flag.
C9_GrantRevoke ==
    [][\A path \in Paths(root) : \A n \in CallNames :
          LET s == ScopeAt(root, path)
              after == ScopeAt(root', path).permissions[n]
          IN  /\ (result' = [op |-> "add_permission", res |-> "Ok"]
                     /\ AddPermission(path, n)) => ~has(after)
              /\ (result'.op = "grant" /\ n \in DOMAIN s.permissions
                     /\ Grant(path, n)) =>
                     /\ result'.res = IF has(s.permissions[n]) THEN "GrantError"
                                      ELSE "Ok"
                     /\ has(after)
              /\ (result'.op = "revoke" /\ n \in DOMAIN s.permissions
                     /\ Revoke(path, n)) =>
                     /\ result'.res = IF has(s.permissions[n]) THEN "Ok"
                                      ELSE "RevocationError"
                     /\ ~has(after)]_vars

\* C9 witness: a revoke succeeded (after a grant) beside a permission that is
\* still granted.
C9_Witness ==
    /\ result = [op |-> "revoke", res |-> "Ok"]
    /\ Granted(root) # {}
    /\ DOMAIN root.permissions \ Granted(root) # {}

\* C10: when add_permission or add_scope returns an error the scope is as it
\* was: its permissions and their granted flags, its child scopes, its
\* next_permission_shift and its as_u64().
C10_NoPartialMutation ==
    [][\A path \in Paths(root) : \A n \in CallNames :
          (/\ result'.op \in {"add_permission", "add_scope"}
           /\ result'.res # "Ok"
           /\ AddPermission(path, n) \/ AddScope(path, n)) =>
              /\ root' = root
              /\ added' = added
              /\ as_u64(ScopeAt(root', path)) = as_u64(ScopeAt(root, path))]_vars

\* C10 witness: add_scope was refused by a scope with a granted permission.
C10_Witness ==
    /\ result.op = "add_scope"
    /\ result.res # "Ok"
    /\ Granted(root) # {}

\* the names the caller of Spec and SpecLookup passes
TreeNames == Names \cup ScopeNames

\* the scopes on the way from the root to the scope at path, that scope excluded
Ancestors(path) == {SubSeq(path, 1, k) : k \in 0..(Len(path) - 1)}

\* C11: a child scope allocates its permissions from bit 0 (its first has
\* value 1) whatever the parent holds, and add_permission, grant and revoke
\* inside a child leave every ancestor's as_u64(), permissions and
\* next_permission_shift as they were.
C11_ChildIndependent ==
    [][\A path \in Paths(root) \ {Top} : \A n \in TreeNames :
          (/\ result'.op \in {"add_permission", "grant", "revoke"}
           /\ AddPermission(path, n) \/ Grant(path, n) \/ Revoke(path, n)) =>
              /\ \A up \in Ancestors(path) :
                    LET before == ScopeAt(root, up)
                        after == ScopeAt(root', up)
                    IN  /\ as_u64(after) = as_u64(before)
                        /\ after.permissions = before.permissions
                        /\ after.next_permission_shift = before.next_permission_shift
              /\ (result' = [op |-> "add_permission", res |-> "Ok"]
                    /\ Len(added[path]) = 0) =>
                     ScopeAt(root', path).permissions[n].value = One]_vars

\* C11 witness: a child holds, granted and with value 1, a permission named
\* like one of the two permissions of its parent.
C11_Witness ==
    /\ Cardinality(DOMAIN root.permissions) = 2
    /\ \E c \in DOMAIN root.scopes :
          \E n \in DOMAIN root.scopes[c].permissions \cap DOMAIN root.permissions :
             /\ root.scopes[c].permissions[n].value = One
             /\ has(root.scopes[c].permissions[n])
             /\ ~has(root.permissions[n])

\* C12 as claimed: in every scope 1 << next_permission_shift <= 2^53 - 1.
C12_ShiftBelowCeiling ==
    \A path \in Paths(root) :
        LeqMax(ShlBits(One, ScopeAt(root, path).next_permission_shift))

\* C12 as amended: next_permission_shift is at most 53, and
\* 1 << next_permission_shift <= 2^53 - 1 in every scope that holds fewer than
\* 53 permissions; in a scope of 53 permissions the counter is 53.
C12_ShiftAtMostLimit ==
    \A path \in Paths(root) :
        LET s == ScopeAt(root, path) IN
        /\ s.next_permission_shift <= PermissionLimit
        /\ IF Cardinality(DOMAIN s.permissions) < PermissionLimit
           THEN LeqMax(ShlBits(One, s.next_permission_shift))
           ELSE s.next_permission_shift = PermissionLimit

\* C12 witness: a scope of 53 permissions has refused the 54th.
C12_Witness ==
    /\ Cardinality(DOMAIN root.permissions) = PermissionLimit
    /\ root.next_permission_shift = PermissionLimit
    /\ result.res = "MaxValue"

\* C13: every scope's as_u64() is at most 2^53 - 1, also when all 53
\* permissions of a full scope are granted.
C13_AggregateBelowCeiling ==
    \A path \in Paths(root) : LeqMax(as_u64(ScopeAt(root, path)))

\* C13 witness: all 53 permissions of a full scope are granted.
C13_Witness ==
    /\ Cardinality(DOMAIN root.permissions) = PermissionLimit
    /\ Granted(root) = DOMAIN root.permissions
    /\ as_u64(root) = MAX_VALUE

\* C18: Scope::from never panics on the tuple as_tuple made of a scope built
\* through the API, whatever its number of permissions from 0 to 53.
C18_ExpandNeverPanics ==
    expanded # NoScope => expanded.tag # Panic

\* the names a sequence holds
Range(q) == {q[i] : i \in DOMAIN q}

\* C14: permission(n) is Some exactly when a permission named n was added to
\* the scope, scope(n) is Some exactly when a child named n was added, both
\* are None otherwise (the empty map included), and neither changes a scope.
C14_LookupsExact ==
    [][\A path \in Paths(root) : \A n \in TreeNames :
          (/\ result'.op \in {"permission", "scope"}
           /\ LookupPermission(path, n) \/ LookupScope(path, n)) =>
              LET s == ScopeAt(root, path) IN
              /\ root' = root
              /\ added' = added
              /\ permission(s, n) = IF n \in Range(added[path])
                                     THEN Some(s.permissions[n]) ELSE None
              /\ scope(s, n) = IF Append(path, n) \in DOMAIN added
                                THEN Some(s.scopes[n]) ELSE None
              /\ result'.op = "permission" => result'.res = permission(s, n).tag
              /\ result'.op = "scope" => result'.res = scope(s, n).tag]_vars

\* C14 witness: a lookup found a permission in a scope that also holds a
\* permission of another name and a child whose own maps are empty.
C14_Witness ==
    /\ result = [op |-> "permission", res |-> "Some"]
    /\ Cardinality(DOMAIN root.permissions) = 2
    /\ \E c \in DOMAIN root.scopes :
          /\ permission(root.scopes[c], "READ") = None
          /\ scope(root.scopes[c], "ADMIN") = None
          /\ is_empty(root.scopes[c].permissions)

\* in every scope the counter equals the number of permissions held
ShiftIsCount(r) ==
    \A path \in Paths(r) :
        LET s == ScopeAt(r, path) IN
        /\ s.next_permission_shift = Cardinality(DOMAIN s.permissions)
        /\ s.next_permission_shift = Len(added[path])

\* C20: next_permission_shift starts at 0, grows by one with each successful
\* add_permission and is left alone by every other call and by a failed
\* add_permission; it always equals the number of permissions of the scope.
C20_ShiftCountsPermissions ==
    /\ []ShiftIsCount(root)
    /\ [][\A path \in Paths(root') :
            LET after == ScopeAt(root', path).next_permission_shift IN
            IF path \notin Paths(root) THEN after = 0
            ELSE LET before == ScopeAt(root, path).next_permission_shift IN
                 IF /\ result' = [op |-> "add_permission", res |-> "Ok"]
                    /\ added'[path] # added[path]
                 THEN after = before + 1
                 ELSE after = before]_vars

\* C20 witness: after two successful additions a third call has failed.
C20_Witness ==
    /\ root.next_permission_shift = 2
    /\ result.op = "add_permission"
    /\ result.res # "Ok"

Distinct(q) == Cardinality(Range(q)) = Len(q)

\* Scope::from has returned a scope for a tuple of pairwise distinct names
ExpandedDistinct ==
    /\ expanded.tag = "Some"
    /\ result.op = "from"
    /\ Distinct(tuple.val[3])

\* C16: in the scope expanded from a tuple of pairwise distinct names, the
\* permission of position i (from 0) is granted exactly when bit i of the
\* tuple's aggregate is set.
C16_GrantsByPosition ==
    ExpandedDistinct =>
        \A i \in 0..(Len(tuple.val[3]) - 1) :
            has(expanded.val.permissions[tuple.val[3][i + 1]]) <=> i \in tuple.val[2]

\* C17: the scope expanded from a tuple of k distinct names has
\* next_permission_shift = k, and the permission a following successful
\* add_permission creates has a value no reconstructed permission has.
C17_ExpandedShiftIsFree ==
    /\ [](ExpandedDistinct =>
            expanded.val.next_permission_shift = Len(tuple.val[3]))
    /\ [][\A n \in TupleNames :
            (/\ ExpandedDistinct
             /\ ExpandedAddPermission(n)
             /\ result'.res = "Ok") =>
                \A k \in DOMAIN expanded.val.permissions :
                    expanded'.val.permissions[n].value
                        # expanded.val.permissions[k].value]_vars

\* C19: for a tuple of k distinct names whose aggregate is below 2^k, the
\* aggregate of Scope::from(T).as_tuple() is the aggregate of T.
C19_RecollapseAggregate ==
    (/\ ExpandedDistinct
     /\ tuple.val[2] \subseteq 0..(Len(tuple.val[3]) - 1)) =>
        \A t \in as_tuple_set(expanded.val) : t[2] = tuple.val[2]

\* t is a complete snapshot of s: its name, its aggregate, each permission
\* name once, and one snapshot per child scope
RECURSIVE IsSnapshot(_, _)
IsSnapshot(s, t) ==
    /\ t[1] = s.name
    /\ t[2] = as_u64(s)
    /\ Len(t[3]) = Cardinality(DOMAIN s.permissions)
    /\ Range(t[3]) = DOMAIN s.permissions
    /\ Len(t[4]) = Cardinality(DOMAIN s.scopes)
    /\ \A c \in DOMAIN s.scopes :
          /\ Cardinality({i \in DOMAIN t[4] : t[4][i][1] = c}) = 1
          /\ \A i \in DOMAIN t[4] :
                t[4][i][1] = c => IsSnapshot(s.scopes[c], t[4][i])

\* C21: as_tuple returns the scope's name, its as_u64(), every permission
\* name exactly once and exactly one tuple per child scope, each the child's
\* own as_tuple(), and leaves the scope and its subtree unchanged.
C21_CollapseIsSnapshot ==
    [][\A t \in as_tuple_set(root) :
          (result'.op = "as_tuple" /\ AsTuple(t)) =>
              /\ root' = root
              /\ added' = added
              /\ IsSnapshot(root', tuple'.val)]_vars

\* C21 witness: the tuple of a scope with a granted permission and two
\* child scopes, one of them holding a permission.
C21_Witness ==
    /\ tuple # NoTuple
    /\ result.op = "as_tuple"
    /\ tuple.val[2] # {}
    /\ Len(tuple.val[4]) = 2
    /\ \E i \in 1..2 : tuple.val[4][i][3] # << >>

\* scope a of the tree before and scope b after differ at most in the granted
\* flags of the permissions named in flags
SameButFlags(a, b, flags) ==
    /\ a.name = b.name
    /\ a.next_permission_shift = b.next_permission_shift
    /\ DOMAIN a.permissions = DOMAIN b.permissions
    /\ DOMAIN a.scopes = DOMAIN b.scopes
    /\ \A k \in DOMAIN a.permissions :
          /\ a.permissions[k].name = b.permissions[k].name
          /\ a.permissions[k].value = b.permissions[k].value
          /\ k \notin flags => a.permissions[k] = b.permissions[k]

\* C22: a grant or revoke call, successful or failed, changes at most the
\* granted flag of the permission it is called on; and no step of any kind
\* changes the name or the value of a permission that exists.
C22_OnlyTheFlag ==
    [][/\ \A path \in Paths(root) : \A n \in Names :
            (/\ result'.op \in {"grant", "revoke"}
             /\ Grant(path, n) \/ Revoke(path, n)) =>
                /\ Paths(root') = Paths(root)
                /\ \A q \in Paths(root) :
                      SameButFlags(ScopeAt(root, q), ScopeAt(root', q),
                                   IF q = path THEN {n} ELSE {})
       /\ root' # root =>
            \A q \in Paths(root) :
               /\ q \in Paths(root')
               /\ LET before == ScopeAt(root, q).permissions
                      after == ScopeAt(root', q).permissions
                  IN  \A k \in DOMAIN before :
                         /\ k \in DOMAIN after
                         /\ after[k].value = before[k].value
                         /\ after[k].name = k]_vars

\* C22 witness: a revoke has succeeded in a scope that holds another
\* permission, still granted, and a child scope.
C22_Witness ==
    /\ result = [op |-> "revoke", res |-> "Ok"]
    /\ Cardinality(DOMAIN root.permissions) = 2
    /\ Cardinality(Granted(root)) = 1
    /\ DOMAIN root.scopes # {}

\* C23: a successful add_scope(n) inserts one child named n with no
\* permissions, no children, next_permission_shift 0 and as_u64() 0, and
\* leaves the parent's permissions, flags, next_permission_shift, as_u64()
\* and every child that existed unchanged.
C23_AddScopeInsertsEmptyChild ==
    [][\A path \in Paths(root) : \A n \in TreeNames :
          (/\ result' = [op |-> "add_scope", res |-> "Ok"]
           /\ AddScopeIn(path, n)) =>
              LET before == ScopeAt(root, path)
                  after == ScopeAt(root', path)
                  child == after.scopes[n]
              IN  /\ n \notin DOMAIN before.scopes
                  /\ DOMAIN after.scopes = DOMAIN before.scopes \cup {n}
                  /\ child.name = n
                  /\ DOMAIN child.permissions = {}
                  /\ DOMAIN child.scopes = {}
                  /\ child.next_permission_shift = 0
                  /\ as_u64(child) = {}
                  /\ after.permissions = before.permissions
                  /\ after.next_permission_shift = before.next_permission_shift
                  /\ as_u64(after) = as_u64(before)
                  /\ \A c \in DOMAIN before.scopes : after.scopes[c] = before.scopes[c]
                  /\ Paths(root') = Paths(root) \cup {Append(path, n)}
                  /\ \A q \in Paths(root) :
                        /\ ScopeAt(root', q).name = ScopeAt(root, q).name
                        /\ ScopeAt(root', q).permissions = ScopeAt(root, q).permissions
                        /\ ScopeAt(root', q).next_permission_shift
                              = ScopeAt(root, q).next_permission_shift]_vars

\* C23 witness: a second child has just been added to a scope that holds a
\* granted permission and a child with a permission of its own.
C23_Witness ==
    /\ result = [op |-> "add_scope", res |-> "Ok"]
    /\ Granted(root) # {}
    /\ Cardinality(DOMAIN root.scopes) = 2
    /\ \E c \in DOMAIN root.scopes : DOMAIN root.scopes[c].permissions # {}
    /\ \E c \in DOMAIN root.scopes : DOMAIN root.scopes[c].permissions = {}

\* the names that are both a permission name and a child name in tuple t
BothInTuple(t) == Range(t[3]) \cap {t[4][i][1] : i \in DOMAIN t[4]}

\* C24: no scope built from Scope::new by add_permission and add_scope calls
\* makes validate_name, add_permission or add_scope return BothExist; the
\* error is returned only on a scope expanded from a tuple in which one name
\* is both a permission name and a child-scope name.
C24_BothExistOnlyFromTuple ==
    /\ \A path \in Paths(root) : \A n \in TreeNames \cup TupleNames :
          validate_name(ScopeAt(root, path), n) # "BothExist"
    /\ result.res = "BothExist" =>
          /\ expanded.tag = "Some"
          /\ BothInTuple(tuple.val) # {}

\* C24 witness: a call on an expanded scope has returned BothExist.
C24_Witness ==
    /\ result.res = "BothExist"
    /\ expanded.tag = "Some"
    /\ validate_name(expanded.val, "ADMIN") = "BothExist"

====
